---- MODULE Spec2Model ----
(***************************************************************************)
(* Model of the style rule matcher of app/decision.py (decide_style,       *)
(* get_config, _load_config) and of the context model of app/models.py.    *)
(*                                                                         *)
(* Python values are represented as follows.                               *)
(*   - a dict is a function whose domain is its key set;                   *)
(*   - None, as a context value or as a required value of a condition, is  *)
(*     the string None (no enumeration value is spelled that way);         *)
(*   - a rule mapping is a record: keys is the set of keys present in the  *)
(*     mapping, conditions_is_none says that the "conditions" key holds    *)
(*     null, conditions is the mapping it holds otherwise, style the       *)
(*     string under "style";                                               *)
(*   - a config mapping is a record: keys is its key set, strategies the   *)
(*     list under "strategies".                                            *)
(* Config objects live in a heap (store) and are passed by reference, as   *)
(* Python passes them.                                                     *)
(***************************************************************************)
EXTENDS Integers, Sequences, FiniteSets, TLC

\* ---------------------------------------------------------------- bounds
MaxRules == 2
MaxLoads == 3

\* ---------------------------------------------------------------- models.py
None == "None"

KnowledgeLevel == {"novice", "intermediate", "expert"}
Emotion == {"positive", "neutral", "negative"}
GoalClarity == {"clear", "ambiguous"}
Urgency == {"high", "normal", "low"}
Stakes == {"high", "medium", "low"}

Attrs == {"knowledge", "emotion", "clarity", "urgency", "stakes"}

Ctx(k, e, c, u, s) ==
  [a \in Attrs |-> CASE a = "knowledge" -> k
                     [] a = "emotion" -> e
                     [] a = "clarity" -> c
                     [] a = "urgency" -> u
                     [] a = "stakes" -> s]

\* every value InteractionContext accepts: each field an enumeration value or None
InteractionContext ==
  {Ctx(k, e, c, u, s) : k \in KnowledgeLevel \cup {None}, e \in Emotion \cup {None},
                        c \in GoalClarity \cup {None}, u \in Urgency \cup {None},
                        s \in Stakes \cup {None}}

\* context.model_dump(exclude_none=True)
model_dump(context) ==
  [a \in {b \in Attrs : context[b] # None} |-> context[a]]

\* StyleDecision(style=..., matched_rule_index=...), or the exception that left the call
StyleDecision(style, index) ==
  [raised |-> "", style |-> style, matched_rule_index |-> index]
Raise(exc) ==
  [raised |-> exc, style |-> "", matched_rule_index |-> -2]
NoResult == [raised |-> "pending", style |-> "", matched_rule_index |-> -2]

\* ---------------------------------------------------------------- decision.py
EmptyDict == [k \in {} |-> None]

\* dict.get(key) with default None
DictGet(d, key) == IF key \in DOMAIN d THEN d[key] ELSE None

\* rule.get("conditions", {}) or {}
Conds(rule) ==
  IF "conditions" \notin rule.keys \/ rule.conditions_is_none
  THEN EmptyDict
  ELSE rule.conditions

\* variant: an empty conditions mapping matches nothing (conds and all(...))
RuleMatchesNonEmpty(rule, ctx_dict) ==
  /\ DOMAIN Conds(rule) # {}
  /\ \A key \in DOMAIN Conds(rule) : DictGet(ctx_dict, key) = Conds(rule)[key]

\* all(ctx_dict.get(key) == value for key, value in conds.items())
RuleMatches(rule, ctx_dict) ==
  \A key \in DOMAIN Conds(rule) : DictGet(ctx_dict, key) = Conds(rule)[key]

\* rule.get("style", "hybrid")
StyleOf(rule) == IF "style" \in rule.keys THEN rule.style ELSE "hybrid"

\* bool(config) of a dict: non-empty
Truthy(cfg) == cfg.keys # {}

\* cfg.get("strategies", [])
RulesOf(cfg) == IF "strategies" \in cfg.keys THEN cfg.strategies ELSE <<>>

\* the for loop of decide_style from position i (zero-based) on, as a function
RECURSIVE ScanFrom(_, _, _)
ScanFrom(rs, ctx_dict, i) ==
  IF i >= Len(rs) THEN StyleDecision("hybrid", -1)
  ELSE IF RuleMatches(rs[i + 1], ctx_dict)
       THEN StyleDecision(StyleOf(rs[i + 1]), i)
       ELSE ScanFrom(rs, ctx_dict, i + 1)

\* lines 35 to 47 of decide_style over an already chosen config mapping
DecideOver(context, cfg) == ScanFrom(RulesOf(cfg), model_dump(context), 0)

\* decide_style(context, config) as a function of its arguments and of what
\* get_config() gives. An Optional argument is a set with at most one element: {}
\* is None. default is {} when get_config() raises FileNotFoundError.
decide_style(context, config, default) ==
  LET given == {c \in config : Truthy(c)}
  IN  IF given # {} THEN DecideOver(context, CHOOSE c \in given : TRUE)
      ELSE IF default = {} THEN Raise("FileNotFoundError")
      ELSE DecideOver(context, CHOOSE c \in default : TRUE)

\* ---------------------------------------------------------------- inputs
MkRule(keys, isnone, conds, style) ==
  [keys |-> keys, conditions_is_none |-> isnone, conditions |-> conds, style |-> style]
MkConfig(keys, rs) == [keys |-> keys, strategies |-> rs]

RNovice == MkRule({"conditions", "style"}, FALSE, "knowledge" :> "novice", "explanatory")
RNegative == MkRule({"conditions", "style"}, FALSE, "emotion" :> "negative",
                    "reassuring_explanatory")
RExpert == MkRule({"conditions", "style"}, FALSE,
                  ("knowledge" :> "expert") @@ ("clarity" :> "clear") @@ ("urgency" :> "normal"),
                  "concise")
REmpty == MkRule({"conditions", "style"}, FALSE, EmptyDict, "invitational")
RNullValue == MkRule({"conditions", "style"}, FALSE, "knowledge" :> None, "directive")
RUnknownKey == MkRule({"conditions", "style"}, FALSE, "mood" :> None, "socratic")
RCondsNull == MkRule({"conditions", "style"}, TRUE, EmptyDict, "concise")
RBare == MkRule({}, FALSE, EmptyDict, "")

RulePool == {RNovice, RNegative, REmpty, RNullValue, RUnknownKey, RCondsNull, RBare}

RECURSIVE SeqsUpTo(_, _)
SeqsUpTo(S, n) ==
  IF n = 0 THEN {<<>>}
  ELSE LET shorter == SeqsUpTo(S, n - 1)
       IN  shorter \cup {Append(s, x) : s \in {t \in shorter : Len(t) = n - 1}, x \in S}

\* configs a caller passes explicitly
ArgPool ==
  {MkConfig({"strategies"}, rs) : rs \in SeqsUpTo(RulePool, MaxRules)}
    \cup {MkConfig({}, <<>>), MkConfig({"version"}, <<>>)}

\* contents the default config file can have
FilePool ==
  {MkConfig({"strategies"}, <<RNegative, RNovice, RExpert, REmpty>>),
   MkConfig({"strategies"}, <<RNovice>>)}

ContextPool ==
  {Ctx(None, None, None, None, None),
   Ctx("novice", None, None, None, None),
   Ctx(None, "negative", None, None, None),
   Ctx("novice", "negative", None, None, None),
   Ctx("expert", None, "clear", "normal", None)}

\* ---------------------------------------------------------------- state
Threads == {"t1", "t2"}
NotLoaded == "not_loaded"
NoRef == "no_ref"

VARIABLES
  file,     \* the default config file: {} when it does not exist, {contents} otherwise
  store,    \* heap of config mappings: "arg" is the caller's, t the one thread t loaded
  cache,    \* lru_cache of get_config: NotLoaded or the reference it holds
  loads,    \* number of completed _load_config calls
  pc,       \* per thread: position in decide_style
  ctx,      \* per thread: the context argument
  config,   \* per thread: the config argument, None or the reference "arg"
  rules,    \* per thread: reference of the mapping whose strategies are iterated
  idx,      \* per thread: loop index of enumerate(rules)
  result    \* per thread: what the last call returned or raised

vars == <<file, store, cache, loads, pc, ctx, config, rules, idx, result>>

InitWith(args) ==
  /\ file \in {{}} \cup {{c} : c \in FilePool}
  /\ \E a \in args : store = ("arg" :> a)
  /\ cache = NotLoaded
  /\ loads = 0
  /\ pc = [t \in Threads |-> "idle"]
  /\ ctx = [t \in Threads |-> Ctx(None, None, None, None, None)]
  /\ config = [t \in Threads |-> None]
  /\ rules = [t \in Threads |-> NoRef]
  /\ idx = [t \in Threads |-> 0]
  /\ result = [t \in Threads |-> NoResult]

Init == InitWith(ArgPool)

\* decide_style(context, config): entry and line 35 up to the cache lookup
Call(t, context, cfgarg) ==
  /\ pc[t] \in {"idle", "done"}
  /\ ctx' = [ctx EXCEPT ![t] = context]
  /\ config' = [config EXCEPT ![t] = cfgarg]
  /\ idx' = [idx EXCEPT ![t] = 0]
  /\ result' = [result EXCEPT ![t] = NoResult]
  /\ IF cfgarg # None /\ Truthy(store[cfgarg])
     THEN /\ rules' = [rules EXCEPT ![t] = cfgarg]
          /\ pc' = [pc EXCEPT ![t] = "scan"]
     ELSE IF cache # NotLoaded
          THEN /\ rules' = [rules EXCEPT ![t] = cache]
               /\ pc' = [pc EXCEPT ![t] = "scan"]
          ELSE /\ rules' = [rules EXCEPT ![t] = NoRef]
               /\ pc' = [pc EXCEPT ![t] = "load"]
  /\ UNCHANGED <<file, store, cache, loads>>

\* _load_config(): the cache missed
Load(t) ==
  /\ pc[t] = "load"
  /\ loads < MaxLoads
  /\ IF file = {}
     THEN /\ result' = [result EXCEPT ![t] = Raise("FileNotFoundError")]
          /\ pc' = [pc EXCEPT ![t] = "done"]
          /\ UNCHANGED <<store, loads>>
     ELSE /\ \E c \in file :
               store' = [o \in DOMAIN store \cup {t} |-> IF o = t THEN c ELSE store[o]]
          /\ loads' = loads + 1
          /\ pc' = [pc EXCEPT ![t] = "cache_store"]
          /\ UNCHANGED result
  /\ UNCHANGED <<file, cache, ctx, config, rules, idx>>

\* variant: get_config without the lru_cache decorator, nothing is kept
CacheStoreNoKeep(t) ==
  /\ pc[t] = "cache_store"
  /\ rules' = [rules EXCEPT ![t] = t]
  /\ pc' = [pc EXCEPT ![t] = "scan"]
  /\ UNCHANGED <<file, store, cache, loads, ctx, config, idx, result>>

\* lru_cache keeps the loaded mapping unless the key was filled meanwhile;
\* the caller goes on with the mapping it loaded
CacheStore(t) ==
  /\ pc[t] = "cache_store"
  /\ cache' = IF cache = NotLoaded THEN t ELSE cache
  /\ rules' = [rules EXCEPT ![t] = t]
  /\ pc' = [pc EXCEPT ![t] = "scan"]
  /\ UNCHANGED <<file, store, loads, ctx, config, idx, result>>

\* variant: the loop has no early return and keeps the last rule that matched
ScanLastMatch(t) ==
  /\ pc[t] = "scan"
  /\ LET rs == RulesOf(store[rules[t]])
         ctx_dict == model_dump(ctx[t])
     IN  IF idx[t] >= Len(rs)
         THEN /\ result' = [result EXCEPT ![t] = StyleDecision("hybrid", -1)]
              /\ pc' = [pc EXCEPT ![t] = "done"]
              /\ UNCHANGED idx
         ELSE IF /\ RuleMatches(rs[idx[t] + 1], ctx_dict)
                 /\ \A j \in (idx[t] + 2)..Len(rs) : ~RuleMatches(rs[j], ctx_dict)
              THEN /\ result' = [result EXCEPT ![t] =
                                   StyleDecision(StyleOf(rs[idx[t] + 1]), idx[t])]
                   /\ pc' = [pc EXCEPT ![t] = "done"]
                   /\ UNCHANGED idx
              ELSE /\ idx' = [idx EXCEPT ![t] = idx[t] + 1]
                   /\ UNCHANGED <<result, pc>>
  /\ UNCHANGED <<file, store, cache, loads, ctx, config, rules>>

\* variant: the loop consumes the list it iterates (while rules: rule = rules.pop(0))
ScanConsuming(t) ==
  /\ pc[t] = "scan"
  /\ LET rs == RulesOf(store[rules[t]])
         ctx_dict == model_dump(ctx[t])
     IN  IF Len(rs) = 0
         THEN /\ result' = [result EXCEPT ![t] = StyleDecision("hybrid", -1)]
              /\ pc' = [pc EXCEPT ![t] = "done"]
              /\ UNCHANGED <<idx, store>>
         ELSE IF RuleMatches(rs[1], ctx_dict)
              THEN /\ result' = [result EXCEPT ![t] = StyleDecision(StyleOf(rs[1]), idx[t])]
                   /\ pc' = [pc EXCEPT ![t] = "done"]
                   /\ UNCHANGED <<idx, store>>
              ELSE /\ idx' = [idx EXCEPT ![t] = idx[t] + 1]
                   /\ store' = [store EXCEPT ![rules[t]].strategies = Tail(rs)]
                   /\ UNCHANGED <<result, pc>>
  /\ UNCHANGED <<file, cache, loads, ctx, config, rules>>

\* one iteration of the for loop, or the fallback after it
Scan(t) ==
  /\ pc[t] = "scan"
  /\ LET rs == RulesOf(store[rules[t]])
         ctx_dict == model_dump(ctx[t])
     IN  IF idx[t] >= Len(rs)
         THEN /\ result' = [result EXCEPT ![t] = StyleDecision("hybrid", -1)]
              /\ pc' = [pc EXCEPT ![t] = "done"]
              /\ UNCHANGED idx
         ELSE IF RuleMatches(rs[idx[t] + 1], ctx_dict)
              THEN /\ result' = [result EXCEPT ![t] =
                                   StyleDecision(StyleOf(rs[idx[t] + 1]), idx[t])]
                   /\ pc' = [pc EXCEPT ![t] = "done"]
                   /\ UNCHANGED idx
              ELSE /\ idx' = [idx EXCEPT ![t] = idx[t] + 1]
                   /\ UNCHANGED <<result, pc>>
  /\ UNCHANGED <<file, store, cache, loads, ctx, config, rules>>

\* the environment writes or removes the default config file
FileWrite(c) ==
  /\ file # {c}
  /\ file' = {c}
  /\ UNCHANGED <<store, cache, loads, pc, ctx, config, rules, idx, result>>

FileRemove ==
  /\ file # {}
  /\ file' = {}
  /\ UNCHANGED <<store, cache, loads, pc, ctx, config, rules, idx, result>>

Step(t, contexts) ==
  \/ \E context \in contexts, cfgarg \in {None, "arg"} : Call(t, context, cfgarg)
  \/ Load(t)
  \/ CacheStore(t)
  \/ Scan(t)

Env ==
  \/ \E c \in FilePool : FileWrite(c)
  \/ FileRemove

\* calls one after the other, as the event loop of main.py and the tests make them
Next == Step("t1", ContextPool) \/ Env

Spec == Init /\ [][Next]_vars

\* calls of several threads, interleaved at every step
ConcRulePool == {RNovice, REmpty, RNullValue}
ConcArgPool ==
  {MkConfig({"strategies"}, rs) : rs \in SeqsUpTo(ConcRulePool, MaxRules)}
    \cup {MkConfig({}, <<>>)}
ConcContextPool ==
  {Ctx(None, None, None, None, None),
   Ctx("novice", None, None, None, None),
   Ctx("novice", "negative", None, None, None)}

InitConc == InitWith(ConcArgPool)
NextConc == (\E t \in Threads : Step(t, ConcContextPool)) \/ Env
SpecConc == InitConc /\ [][NextConc]_vars

\* ---------------------------------------------------------------- properties
Done(t) == pc[t] = "done"
Returned(t) == Done(t) /\ result[t].raised = ""
Index(t) == result[t].matched_rule_index
\* the rule list the call of t iterates, once line 35 has chosen it
Evaluated(t) == RulesOf(store[rules[t]])
\* the rule list the caller of t supplied: its own, or the default one
Supplied(t) == IF config[t] = "arg" THEN RulesOf(store["arg"]) ELSE Evaluated(t)
EmptyContext == Ctx(None, None, None, None, None)

\* the match relation as section 4.1 words it: every required value is the value
\* the context has set for that attribute
SpecMatch(rule, context) ==
  \A key \in DOMAIN Conds(rule) :
    /\ key \in Attrs
    /\ context[key] # None
    /\ context[key] = Conds(rule)[key]

\* a rule whose conditions mapping is empty, missing or null
IsWildcard(rule) ==
  \/ "conditions" \notin rule.keys
  \/ rule.conditions_is_none
  \/ DOMAIN rule.conditions = {}

\* C1: a call that returns index i >= 0 returns the index of a rule that matches
\* the context, no rule before it matches, and the loop went no further than i.
C1_FirstMatchPriority ==
  \A t \in Threads :
    (Returned(t) /\ Index(t) >= 0) =>
      LET rs == Evaluated(t)
          cd == model_dump(ctx[t])
          i == Index(t)
      IN  /\ i < Len(rs)
          /\ RuleMatches(rs[i + 1], cd)
          /\ \A j \in 1..i : ~RuleMatches(rs[j], cd)
          /\ idx[t] = i

\* two rules match the context and the call returned the earlier one
C1_Witness ==
  /\ Returned("t1")
  /\ Index("t1") = 0
  /\ Len(Evaluated("t1")) >= 2
  /\ RuleMatches(Evaluated("t1")[1], model_dump(ctx["t1"]))
  /\ RuleMatches(Evaluated("t1")[2], model_dump(ctx["t1"]))
  /\ Evaluated("t1")[1] # Evaluated("t1")[2]

\* C2: the call treats a rule as matching exactly when every required value of the
\* rule is the value the context has set for that attribute: the rule it returns
\* matches in that sense, and no rule it passed over does.
C2_MatchPredicate ==
  \A t \in Threads :
    rules[t] # NoRef =>
      LET rs == Evaluated(t)
      IN  /\ \A j \in 1..idx[t] : j <= Len(rs) => ~SpecMatch(rs[j], ctx[t])
          /\ (Returned(t) /\ Index(t) >= 0) => SpecMatch(rs[Index(t) + 1], ctx[t])

\* C3: when no rule of the supplied list matches, the call returns index -1 with
\* style "hybrid", also for an empty list and for the empty context against rules
\* that all have a constraint; and it returns -1 only then.
C3_NoMatchFallback ==
  \A t \in Threads :
    (Done(t) /\ (config[t] = "arg" \/ rules[t] # NoRef)) =>
      LET rs == Supplied(t)
          cd == model_dump(ctx[t])
          none == \A j \in 1..Len(rs) : ~RuleMatches(rs[j], cd)
      IN  /\ none => result[t] = StyleDecision("hybrid", -1)
          /\ (Returned(t) /\ Index(t) = -1) => none
          /\ (ctx[t] = EmptyContext /\ \A j \in 1..Len(rs) : ~IsWildcard(rs[j]))
               => result[t] = StyleDecision("hybrid", -1)

\* C4: every call ends by returning a StyleDecision, never by raising.
C4_Totality ==
  \A t \in Threads : Done(t) => result[t].raised = ""

\* C5: a rule with an empty, missing or null conditions mapping matches every
\* context; when such a rule is at index i and no earlier rule matches, the call
\* returns index i.
C5_Wildcard ==
  \A t \in Threads :
    (Done(t) /\ rules[t] # NoRef) =>
      LET rs == Evaluated(t)
          cd == model_dump(ctx[t])
      IN  \A i \in 1..Len(rs) :
            IsWildcard(rs[i]) =>
              /\ \A c \in InteractionContext : RuleMatches(rs[i], model_dump(c))
              /\ (\A j \in 1..(i - 1) : ~RuleMatches(rs[j], cd))
                   => (Returned(t) /\ Index(t) = i - 1)

\* the empty context reached a wildcard rule that is not the first rule
C5_Witness ==
  /\ Returned("t1")
  /\ ctx["t1"] = EmptyContext
  /\ Index("t1") = 1
  /\ IsWildcard(Evaluated("t1")[2])
  /\ ~IsWildcard(Evaluated("t1")[1])

\* C6: no call returns a decision taken from a rule that has no style label.
C6_NoUnlabelledRule ==
  \A t \in Threads :
    (Returned(t) /\ Index(t) >= 0) => "style" \in Evaluated(t)[Index(t) + 1].keys

\* C7: the outcome of a call that was given a config is the outcome of the loop
\* over that config's rule list and the context, whatever the cache and the
\* default config file hold.
C7_Determinism ==
  \A t \in Threads :
    (Done(t) /\ config[t] # None) => result[t] = DecideOver(ctx[t], store[config[t]])

\* C8: a call that returns index i >= 0 returns a position of the rule list and
\* the style label stored in the rule at that position.
C8_MatchedRuleOutput ==
  \A t \in Threads :
    (Returned(t) /\ Index(t) >= 0) =>
      LET rs == Evaluated(t)
          i == Index(t)
      IN  /\ i < Len(rs)
          /\ "style" \in rs[i + 1].keys
          /\ result[t].style = rs[i + 1].style

\* no step changes a config mapping that exists or the arguments of a call in progress
C9_Frame ==
  /\ \A o \in DOMAIN store : o \in DOMAIN store' /\ store'[o] = store[o]
  /\ \A t \in Threads :
       pc[t] \notin {"idle", "done"} => (ctx'[t] = ctx[t] /\ config'[t] = config[t])
\* a finished call holds what decide_style gives for its arguments and the default
\* config it obtained, computed on their own
C9_Alone ==
  \A t \in Threads :
    Done(t) =>
      result[t] = decide_style(ctx[t],
                               IF config[t] = None THEN {} ELSE {store[config[t]]},
                               IF rules[t] = NoRef THEN {} ELSE {store[rules[t]]})

\* C9: no step changes a config mapping that exists or the arguments of a call
\* in progress, and every call, however interleaved with others, ends with the
\* decision the function gives over its context and its rule list alone.
C9_NoSideEffects == [][C9_Frame]_vars /\ []C9_Alone

\* one thread has returned a match over the caller's rule list while the other
\* is in the middle of its loop over the same list
C9_Witness ==
  /\ Returned("t2") /\ Index("t2") >= 0 /\ rules["t2"] = "arg"
  /\ pc["t1"] = "scan" /\ idx["t1"] = 1 /\ rules["t1"] = "arg"
  /\ ctx["t1"] # ctx["t2"]

\* the call of t ended on the missing default config file
MissingFile(t) == Done(t) /\ result[t].raised = "FileNotFoundError"
\* at most one load has completed; calls without a config iterate the cached
\* mapping; a failed load has cached nothing
C10_State ==
  /\ loads <= 1
  /\ cache # NotLoaded => cache \in DOMAIN store
  /\ \A t \in Threads :
       /\ (pc[t] \in {"scan", "done"} /\ config[t] = None /\ rules[t] # NoRef)
            => rules[t] = cache
       /\ MissingFile(t) => cache = NotLoaded
\* the cached mapping never changes; a load completes only on an empty cache; the
\* call without a config that follows a failed load goes to load again
C10_Step ==
  /\ cache # NotLoaded => (cache' = cache /\ store'[cache] = store[cache])
  /\ loads' > loads => cache = NotLoaded
  /\ \A t \in Threads :
       (MissingFile(t) /\ pc'[t] # "done" /\ config'[t] = None) => pc'[t] = "load"

\* C10: in a sequence of calls the default config is loaded at most once; calls
\* without a config iterate the cached mapping, which never changes once it is
\* cached; a load that fails on a missing file caches nothing, and the next call
\* without a config loads again.
C10_LoadOnce == []C10_State /\ [][C10_Step]_vars

\* a call without a config returned from the cached mapping after the file had
\* been replaced by one that gives another decision
C10_Witness ==
  /\ loads = 1 /\ cache # NotLoaded
  /\ Returned("t1") /\ config["t1"] = None /\ rules["t1"] = cache
  /\ \E c \in file : DecideOver(ctx["t1"], c) # result["t1"]

====
